---- MODULE Spec2Model ----
(***************************************************************************)
(* Model of the streaming engine of SionoiS/dit                            *)
(* (web-app/src/components/video_player.rs): the VideoPlayer component,    *)
(* its message handlers, the live reorder buffer, the ABR level selection  *)
(* and the buffer manager.                                                 *)
(***************************************************************************)
EXTENDS Integers, Naturals, Sequences, FiniteSets, Bags, TLC

(***************************************************************************)
(* Program constants.                                                      *)
(***************************************************************************)
FORWARD_BUFFER_LENGTH == 16
BACK_BUFFER_LENGTH == 8

(***************************************************************************)
(* Bounds of the model.                                                    *)
(***************************************************************************)
\* Number of live video nodes in the origin's chain 1 <- 2 <- ... <- NumNodes.
NumNodes == 3
\* Number of messages the origin publishes on the topic in one run.
MaxAnnounce == 3

(***************************************************************************)
(* Values.                                                                 *)
(***************************************************************************)
\* Option<Cid>::None.  CIDs are the positive integers 1..NumNodes.
None == 0
Cids == 1..NumNodes
\* A pub-sub payload that does not decode as a CID (e.g. "Stopping").
Undecodable == -1
Payloads == Cids \cup {Undecodable}
\* Peer ids: the streamer's and a foreign one.
OriginPeer == "origin"
Peers == {"origin", "other"}

\* The DAG is content addressed: the VideoNode stored at a CID is fixed.
\* Node c links to its predecessor c - 1; node 1 has no `previous`.
NodeOf(cid) == [previous |-> cid - 1]

\* MachineState
MachineStates == {"Load", "Switch", "Flush", "Timeout", "AdaptativeBitrate", "Status"}

VARIABLES
    \* ---- VideoPlayer fields
    metadata,          \* Option<VideoMetadata>: [is_some, duration]
    is_live,           \* live_stream.is_some()
    streamer_peer_id,  \* LiveStream.streamer_peer_id
    previous,          \* LiveStream.previous: Option<Cid>
    buffer,            \* LiveStream.buffer: VecDeque<(Cid, VideoNode)>
    unordered_buffer,  \* LiveStream.unordered_buffer: HashMap<Cid, VideoNode>
    media_buffers,     \* Option<MediaBuffers>: [is_some, tracks]
    level,
    state,
    timeout_closure,   \* timeout_closure.is_some()
    handle,
    \* ---- environment: task queue, browser, object store
    source_open,       \* MediaSource.ready_state == Open
    pubsub_queue,      \* payloads the origin has still to publish, in order
    node_fetches,      \* ipfs_dag_get_callback in flight, per CID
    setup_fetches,     \* setup descriptor fetches in flight
    append_fetches,    \* audio_video_cat / init_cat in flight (a bag)
    update_end,        \* queued Msg::UpdateEnd of the video sink
    timer_armed,       \* a window timeout is installed and has not fired
    video_buffered,    \* video sink's buffered time ranges
    current_time,      \* media element's current time
    panicked,          \* a handler panicked (unwrap on None, index out of range)
    \* ---- observation
    yielded,           \* CIDs popped by load_live_segment, in order
    last_from,         \* sender of the pub-sub message the last step handled
    announced,         \* payloads the origin has published so far
    last_abr,          \* last ABR selection of check_abr: [avg, next, tracks]
    abr_calls,         \* the last two level selections of check_abr:
                       \* [avg, next]
    flushed,           \* what the last step's flush_buffer removed:
                       \* [by, range, audio]
    last_call,         \* the free function a harness called, or what the
                       \* last step asked of the media source or the sink
                       \* (add_source_buffer, change_type):
                       \* [op, input, output]
    \* ---- component lifetime
    destroyed,         \* destroy() has run
    subscription       \* the pub-sub topic: "none", "subscribed", "unsubscribed"

liveVars == <<previous, buffer, unordered_buffer>>
playerVars == <<media_buffers, level, state, timeout_closure, handle>>
fetchVars == <<node_fetches, setup_fetches, append_fetches>>
sinkVars == <<video_buffered, current_time>>
constVars == <<metadata, is_live, streamer_peer_id>>
lifeVars == <<destroyed, subscription>>
vars == <<metadata, is_live, streamer_peer_id, previous, buffer, unordered_buffer,
          media_buffers, level, state, timeout_closure, handle,
          source_open, pubsub_queue, node_fetches, setup_fetches, append_fetches,
          update_end, timer_armed, video_buffered, current_time, panicked,
          yielded, last_from, announced, last_abr, abr_calls, flushed,
          last_call, destroyed, subscription>>

(***************************************************************************)
(* Helpers on sequences and maps.                                          *)
(***************************************************************************)
\* VecDeque::back().map(|(cid, _)| *cid)
BackCid(buf) == IF buf = <<>> THEN None ELSE buf[Len(buf)].cid

\* HashMap::insert
MapInsert(m, k, v) == [x \in (DOMAIN m) \cup {k} |-> IF x = k THEN v ELSE m[x]]

\* HashMap::remove (the map without key k)
MapRemove(m, k) == [x \in (DOMAIN m) \ {k} |-> m[x]]

EmptyMap == [x \in {} |-> 0]

\* Cid::try_from(data)
\* Cid::try_from that would accept any payload as a CID.
CidTryFrom_lenient(data) ==
    [ok |-> TRUE, cid |-> IF data \in Cids THEN data ELSE 1]

CidTryFrom(data) == IF data \in Cids THEN [ok |-> TRUE, cid |-> data]
                    ELSE [ok |-> FALSE, cid |-> None]

(***************************************************************************)
(* check_order: after a push, look the tail CID up in unordered_buffer and *)
(* push what is found, recursively.                                        *)
(***************************************************************************)
RECURSIVE check_order(_, _)
check_order(buf, unord) ==
    IF buf = <<>> THEN [buffer |-> buf, unordered_buffer |-> unord]
    ELSE LET cid == BackCid(buf) IN
         IF cid \in DOMAIN unord
         THEN check_order(Append(buf, [cid |-> cid, node |-> unord[cid]]),
                          MapRemove(unord, cid))
         ELSE [buffer |-> buf, unordered_buffer |-> unord]


(***************************************************************************)
(* The player and the effects of its handlers as one record, so that a     *)
(* handler is a function from the record before to the record after, as    *)
(* the sequential code is.                                                 *)
(***************************************************************************)
\* The video SourceBuffer of MediaBuffers: the codec it was created for or
\* last changed to, and the level whose init segment was appended last
\* (0 when none was).
VideoSink(codec, init) == [codec |-> codec, init |-> init]

\* No call is on record.
NoCall == [op |-> "none"]

\* flush_buffer has not run.  When it runs, `by` is the state it ran in and
\* `range` what it removed from the video sink, <<>> when a remove was
\* refused; `audio` what it removed from the audio sink before.
NoFlush == [by |-> "none", range |-> <<>>, audio |-> <<>>]

St == [metadata |-> metadata, is_live |-> is_live,
       streamer_peer_id |-> streamer_peer_id,
       previous |-> previous, buffer |-> buffer,
       unordered_buffer |-> unordered_buffer,
       media_buffers |-> media_buffers, level |-> level, state |-> state,
       timeout_closure |-> timeout_closure, handle |-> handle,
       source_open |-> source_open,
       node_fetches |-> node_fetches, setup_fetches |-> setup_fetches,
       append_fetches |-> append_fetches, update_end |-> update_end,
       timer_armed |-> timer_armed, panicked |-> panicked,
       yielded |-> yielded, last_abr |-> last_abr, abr_calls |-> abr_calls,
       removed |-> NoFlush, called |-> NoCall]

\* The variables after a handler returned record r (the sink's buffered
\* ranges and the observation of pub-sub are set by the actions).
Apply(r) ==
    /\ previous' = r.previous
    /\ buffer' = r.buffer
    /\ unordered_buffer' = r.unordered_buffer
    /\ media_buffers' = r.media_buffers
    /\ level' = r.level
    /\ state' = r.state
    /\ timeout_closure' = r.timeout_closure
    /\ handle' = r.handle
    /\ source_open' = r.source_open
    /\ node_fetches' = r.node_fetches
    /\ setup_fetches' = r.setup_fetches
    /\ append_fetches' = r.append_fetches
    /\ update_end' = r.update_end
    /\ timer_armed' = r.timer_armed
    /\ panicked' = r.panicked
    /\ yielded' = r.yielded
    /\ last_abr' = r.last_abr
    /\ abr_calls' = r.abr_calls
    /\ flushed' = r.removed
    /\ last_call' = r.called
    /\ UNCHANGED <<constVars, lifeVars>>

\* A handler that panics: the engine stops where it is.
Panic(s) == [s EXCEPT !.panicked = TRUE]

\* spawn_local(ipfs_dag_get_callback(cid, cb))
SpawnNodeFetch(s, cid) ==
    [s EXCEPT !.node_fetches = [@ EXCEPT ![cid] = @ + 1]]

\* spawn_local(audio_video_cat(..)) / spawn_local(init_cat(..))
SpawnAppendFetch(s, f) == [s EXCEPT !.append_fetches = @ (+) SetToBag({f})]

(***************************************************************************)
(* set_timeout                                                             *)
(***************************************************************************)
set_timeout(s, env) ==
    IF s.timeout_closure THEN s
    ELSE [s EXCEPT !.handle = IF env.timeout_ok THEN 1 ELSE @,
                   !.timer_armed = env.timeout_ok,
                   !.timeout_closure = TRUE]

(***************************************************************************)
(* on_pubsub_update                                                        *)
(***************************************************************************)
\* on_pubsub_update without the sender check of line 273.
on_pubsub_update_any_sender(s, from, data) ==
    IF ~s.is_live THEN Panic(s)
    ELSE LET r == CidTryFrom(data) IN
         IF ~r.ok THEN s
         ELSE LET s1 == SpawnNodeFetch(s, r.cid) IN
              IF ~s1.media_buffers.is_some
              THEN [s1 EXCEPT !.setup_fetches = @ + 1]
              ELSE s1

on_pubsub_update(s, from, data) ==
    IF ~s.is_live THEN Panic(s)
    ELSE IF from # s.streamer_peer_id THEN s
    ELSE LET r == CidTryFrom(data) IN
         IF ~r.ok THEN s
         ELSE LET s1 == SpawnNodeFetch(s, r.cid) IN
              IF ~s1.media_buffers.is_some
              THEN [s1 EXCEPT !.setup_fetches = @ + 1]
              ELSE s1

(***************************************************************************)
(* buffer_video_node                                                       *)
(***************************************************************************)
buffer_video_node(s, cid, node) ==
    IF ~s.is_live THEN Panic(s)
    ELSE IF (s.buffer = <<>> /\ node.previous = s.previous)
            \/ node.previous = BackCid(s.buffer)
    THEN LET r == check_order(Append(s.buffer, [cid |-> cid, node |-> node]),
                              s.unordered_buffer)
         IN [s EXCEPT !.buffer = r.buffer,
                      !.unordered_buffer = r.unordered_buffer]
    ELSE LET s1 == [s EXCEPT !.unordered_buffer = MapInsert(@, cid, node)] IN
         IF node.previous = None THEN Panic(s1)
         ELSE SpawnNodeFetch(s1, node.previous)

(***************************************************************************)
(* load_live_segment                                                       *)
(***************************************************************************)
\* load_live_segment with the assignment of line 519 (live.previous =
\* Some(cid)) left out.
load_live_segment_keeps_previous(s, env) ==
    IF ~s.is_live THEN Panic(s)
    ELSE IF s.buffer = <<>> THEN set_timeout(s, env)
    ELSE LET head == Head(s.buffer)
             s1 == [s EXCEPT !.buffer = Tail(@),
                             !.yielded = Append(@, head.cid)]
         IN IF ~s1.media_buffers.is_some THEN Panic(s1)
            ELSE IF s1.level + 1 > Len(s1.media_buffers.tracks) THEN Panic(s1)
            ELSE SpawnAppendFetch(
                    [s1 EXCEPT !.state = "AdaptativeBitrate"],
                    [kind |-> "media", audio |-> TRUE, level |-> s1.level,
                     segment |-> head.cid])

load_live_segment(s, env) ==
    IF ~s.is_live THEN Panic(s)
    ELSE IF s.buffer = <<>> THEN set_timeout(s, env)
    ELSE LET head == Head(s.buffer)
             s1 == [s EXCEPT !.buffer = Tail(@),
                             !.previous = head.cid,
                             !.yielded = Append(@, head.cid)]
         IN IF ~s1.media_buffers.is_some THEN Panic(s1)
            ELSE IF s1.level + 1 > Len(s1.media_buffers.tracks) THEN Panic(s1)
            ELSE SpawnAppendFetch(
                    [s1 EXCEPT !.state = "AdaptativeBitrate"],
                    [kind |-> "media", audio |-> TRUE, level |-> s1.level,
                     segment |-> head.cid])


(***************************************************************************)
(* Tracks.  A Vec<Track> is a sequence; Rust index i is element i + 1.     *)
(***************************************************************************)
Track(name, codec, bandwidth) ==
    [name |-> name, codec |-> codec, bandwidth |-> bandwidth]

\* tracks.get(i)
HasTrack(tracks, i) == i + 1 <= Len(tracks)
\* tracks[i]
TrackAt(tracks, i) == tracks[i + 1]

\* MediaSource::is_type_supported
IsTypeSupported(codec) == codec # "unsupported"

\* ExponentialMovingAverage::recalculate_average_speed returning None
NoAvg == -1

(***************************************************************************)
(* check_abr, lines 622-629: the level selected for an average bitrate.    *)
(***************************************************************************)
RECURSIVE abr_loop(_, _, _)
abr_loop(tracks, avg_bitrate, next_level) ==
    IF HasTrack(tracks, next_level + 1)
    THEN IF avg_bitrate <= TrackAt(tracks, next_level + 1).bandwidth
         THEN next_level
         ELSE abr_loop(tracks, avg_bitrate, next_level + 1)
    ELSE next_level

\* The loop with the comparison of line 624 made strict (avg < next), so
\* that an estimate equal to the next bandwidth steps up.
RECURSIVE abr_loop_ties_up(_, _, _)
abr_loop_ties_up(tracks, avg_bitrate, next_level) ==
    IF HasTrack(tracks, next_level + 1)
    THEN IF avg_bitrate < TrackAt(tracks, next_level + 1).bandwidth
         THEN next_level
         ELSE abr_loop_ties_up(tracks, avg_bitrate, next_level + 1)
    ELSE next_level

SelectLevel_ties_up(tracks, avg_bitrate) == abr_loop_ties_up(tracks, avg_bitrate, 1)

\* The loop with the comparison of line 624 turned round (avg >= next).
RECURSIVE abr_loop_flipped(_, _, _)
abr_loop_flipped(tracks, avg_bitrate, next_level) ==
    IF HasTrack(tracks, next_level + 1)
    THEN IF avg_bitrate >= TrackAt(tracks, next_level + 1).bandwidth
         THEN next_level
         ELSE abr_loop_flipped(tracks, avg_bitrate, next_level + 1)
    ELSE next_level

SelectLevel_flipped(tracks, avg_bitrate) == abr_loop_flipped(tracks, avg_bitrate, 1)

\* let mut next_level = 1; while let Some(..) { .. }
SelectLevel(tracks, avg_bitrate) == abr_loop(tracks, avg_bitrate, 1)

(***************************************************************************)
(* seconds_to_timecode (whole seconds; `as u8` saturates at 255)           *)
(***************************************************************************)
AsU8(x) == IF x < 0 THEN 0 ELSE IF x > 255 THEN 255 ELSE x

seconds_to_timecode(seconds) ==
    LET hours == AsU8(seconds \div 3600)
        rem1 == seconds % 3600
        minutes == AsU8(rem1 \div 60)
        rem2 == rem1 % 60
    IN <<hours, minutes, AsU8(rem2)>>

(***************************************************************************)
(* The sink's buffered time ranges: a sequence of [start, end], ascending  *)
(* and disjoint.  The loops of check_status and flush_buffer (lines        *)
(* 659-673, 726-734) assign buff_start and buff_end at every index.        *)
(***************************************************************************)
RECURSIVE scan_ranges(_, _, _)
scan_ranges(time_ranges, i, acc) ==
    IF i > Len(time_ranges) THEN acc
    ELSE scan_ranges(time_ranges, i + 1,
                     [buff_start |-> time_ranges[i].start,
                      buff_end |-> time_ranges[i].end])

BuffScan(time_ranges) ==
    scan_ranges(time_ranges, 1, [buff_start |-> 0, buff_end |-> 0])

\* SourceBuffer::remove(start, end): the call is refused when the range is
\* empty or negative, or when the sink cannot take it now.
RemoveAccepted(start, end, ok) == ok /\ start >= 0 /\ end > start


(***************************************************************************)
(* load_media_segment (VOD)                                                *)
(***************************************************************************)
load_media_segment(s, env) ==
    IF ~s.metadata.is_some \/ ~s.media_buffers.is_some THEN Panic(s)
    ELSE IF ~HasTrack(s.media_buffers.tracks, s.level) THEN Panic(s)
    ELSE IF ~env.buffered_ok THEN s
    ELSE LET count == Len(env.buffered)
             end0 == IF count > 0 THEN env.buffered[count].end ELSE 0
             buff_end == IF end0 <= 0 /\ env.current_time > 1
                         THEN env.current_time - 1 ELSE end0
         IN SpawnAppendFetch(
                [s EXCEPT !.state = "AdaptativeBitrate"],
                [kind |-> "media", audio |-> TRUE, level |-> s.level,
                 segment |-> seconds_to_timecode(buff_end)])

(***************************************************************************)
(* load_segment                                                            *)
(***************************************************************************)
load_segment(s, env) ==
    IF s.metadata.is_some THEN load_media_segment(s, env)
    ELSE load_live_segment(s, env)

(***************************************************************************)
(* flush_buffer                                                            *)
(***************************************************************************)
\* flush_buffer that would remove from the video sink first, then from the
\* audio sink.
flush_buffer_video_first(s, env) ==
    IF ~s.media_buffers.is_some THEN Panic(s)
    ELSE IF ~env.buffered_ok THEN s
    ELSE LET scan == BuffScan(env.buffered)
             buff_start == scan.buff_start
             back_buffer_start == env.current_time - BACK_BUFFER_LENGTH
             buff_end == IF buff_start < back_buffer_start
                         THEN back_buffer_start ELSE scan.buff_end
             range == <<buff_start, buff_end>>
         IN IF ~RemoveAccepted(buff_start, buff_end, env.remove_video_ok)
            THEN [s EXCEPT !.removed = [by |-> s.state, range |-> <<>>,
                                        audio |-> <<>>]]
            ELSE IF ~RemoveAccepted(buff_start, buff_end, env.remove_audio_ok)
            THEN [s EXCEPT !.removed = [by |-> s.state, range |-> range,
                                        audio |-> <<>>]]
            ELSE [s EXCEPT !.state = "Load",
                           !.update_end = @ + 1,
                           !.removed = [by |-> s.state, range |-> range,
                                        audio |-> range]]

flush_buffer(s, env) ==
    IF ~s.media_buffers.is_some THEN Panic(s)
    ELSE IF ~env.buffered_ok THEN s
    ELSE LET scan == BuffScan(env.buffered)
             buff_start == scan.buff_start
             back_buffer_start == env.current_time - BACK_BUFFER_LENGTH
             buff_end == IF buff_start < back_buffer_start
                         THEN back_buffer_start ELSE scan.buff_end
             range == <<buff_start, buff_end>>
         IN IF ~RemoveAccepted(buff_start, buff_end, env.remove_audio_ok)
            THEN [s EXCEPT !.removed = [by |-> s.state, range |-> <<>>,
                                        audio |-> <<>>]]
            ELSE IF ~RemoveAccepted(buff_start, buff_end, env.remove_video_ok)
            THEN [s EXCEPT !.removed = [by |-> s.state, range |-> <<>>,
                                        audio |-> range]]
            ELSE [s EXCEPT !.state = "Load",
                           !.update_end = @ + 1,
                           !.removed = [by |-> s.state, range |-> range,
                                        audio |-> range]]

(***************************************************************************)
(* switch_quality                                                          *)
(***************************************************************************)
\* switch_quality that would change the sink to the codec of the first
\* video track whatever the level.
switch_quality_first_codec(s, env) ==
    IF ~s.media_buffers.is_some THEN Panic(s)
    ELSE IF ~HasTrack(s.media_buffers.tracks, s.level) THEN s
    ELSE IF ~env.change_type_ok THEN s
    ELSE SpawnAppendFetch(
            [s EXCEPT !.state = "Load",
                      !.media_buffers.video.codec =
                         TrackAt(s.media_buffers.tracks, 1).codec,
                      !.called =
                         [op |-> "change_type",
                          input |-> TrackAt(s.media_buffers.tracks, 1).codec,
                          output |-> "ok"]],
            [kind |-> "init", audio |-> FALSE, level |-> s.level,
             segment |-> None])

switch_quality(s, env) ==
    IF ~s.media_buffers.is_some THEN Panic(s)
    ELSE IF ~HasTrack(s.media_buffers.tracks, s.level) THEN s
    ELSE IF ~env.change_type_ok THEN s
    ELSE SpawnAppendFetch(
            [s EXCEPT !.state = "Load",
                      !.media_buffers.video.codec =
                         TrackAt(s.media_buffers.tracks, s.level).codec,
                      !.called =
                         [op |-> "change_type",
                          input |-> TrackAt(s.media_buffers.tracks,
                                            s.level).codec,
                          output |-> "ok"]],
            [kind |-> "init", audio |-> FALSE, level |-> s.level,
             segment |-> None])

(***************************************************************************)
(* check_status                                                            *)
(***************************************************************************)
\* check_status with the end-of-video test (line 690) moved before the
\* back-buffer test (line 684).
check_status_eov_first(s, env) ==
    IF ~s.media_buffers.is_some THEN Panic(s)
    ELSE IF ~env.buffered_ok THEN set_timeout(s, env)
    ELSE LET scan == BuffScan(env.buffered) IN
         IF s.metadata.is_some /\ scan.buff_end >= s.metadata.duration
         THEN s
         ELSE IF env.current_time > scan.buff_start + BACK_BUFFER_LENGTH
         THEN flush_buffer(s, env)
         ELSE IF s.metadata.is_some
                 /\ env.current_time + FORWARD_BUFFER_LENGTH < scan.buff_end
         THEN set_timeout(s, env)
         ELSE load_segment(s, env)

check_status(s, env) ==
    IF ~s.media_buffers.is_some THEN Panic(s)
    ELSE IF ~env.buffered_ok THEN set_timeout(s, env)
    ELSE LET scan == BuffScan(env.buffered) IN
         IF env.current_time > scan.buff_start + BACK_BUFFER_LENGTH
         THEN flush_buffer(s, env)
         ELSE IF s.metadata.is_some /\ scan.buff_end >= s.metadata.duration
         THEN s
         ELSE IF s.metadata.is_some
                 /\ env.current_time + FORWARD_BUFFER_LENGTH < scan.buff_end
         THEN set_timeout(s, env)
         ELSE load_segment(s, env)

(***************************************************************************)
(* tick and check_abr                                                      *)
(***************************************************************************)
RECURSIVE tick(_, _)

\* check_abr with the assignment of line 636 (self.level = next_level) left
\* out.
check_abr_keeps_level(s, env) ==
    IF ~s.media_buffers.is_some THEN Panic(s)
    ELSE IF ~HasTrack(s.media_buffers.tracks, s.level) THEN Panic(s)
    ELSE IF env.ema = NoAvg
    THEN tick([s EXCEPT !.state = "Status"], env)
    ELSE LET next_level == SelectLevel(s.media_buffers.tracks, env.ema)
             call == [avg |-> env.ema, next |-> next_level]
             s1 == [s EXCEPT !.last_abr = [avg |-> env.ema, next |-> next_level,
                                           tracks |-> s.media_buffers.tracks],
                             !.abr_calls = IF @ = <<>> THEN <<call>>
                                           ELSE <<@[Len(@)], call>>]
         IN IF next_level = s.level
            THEN tick([s1 EXCEPT !.state = "Status"], env)
            ELSE tick([s1 EXCEPT !.state = "Switch"], env)

check_abr(s, env) ==
    IF ~s.media_buffers.is_some THEN Panic(s)
    ELSE IF ~HasTrack(s.media_buffers.tracks, s.level) THEN Panic(s)
    ELSE IF env.ema = NoAvg
    THEN tick([s EXCEPT !.state = "Status"], env)
    ELSE LET next_level == SelectLevel(s.media_buffers.tracks, env.ema)
             call == [avg |-> env.ema, next |-> next_level]
             s1 == [s EXCEPT !.last_abr = [avg |-> env.ema, next |-> next_level,
                                           tracks |-> s.media_buffers.tracks],
                             !.abr_calls = IF @ = <<>> THEN <<call>>
                                           ELSE <<@[Len(@)], call>>]
         IN IF next_level = s.level
            THEN tick([s1 EXCEPT !.state = "Status"], env)
            ELSE tick([s1 EXCEPT !.level = next_level, !.state = "Switch"], env)

tick(s, env) ==
    CASE s.state = "Load" -> load_segment(s, env)
      [] s.state = "Switch" -> switch_quality(s, env)
      [] s.state = "Flush" -> flush_buffer(s, env)
      [] s.state = "Timeout" -> set_timeout(s, env)
      [] s.state = "Status" -> check_status(s, env)
      [] s.state = "AdaptativeBitrate" -> check_abr(s, env)

(***************************************************************************)
(* on_update_end, on_seeking, on_timeout, on_source_open                   *)
(***************************************************************************)
on_update_end(s, env) == tick(s, env)

on_seeking(s, env) == [s EXCEPT !.state = "Flush"]

on_timeout(s, env) ==
    tick([s EXCEPT !.timeout_closure = FALSE, !.handle = 0], env)

on_source_open(s) ==
    LET s1 == [s EXCEPT !.source_open = TRUE] IN
    IF s1.metadata.is_some
    THEN [s1 EXCEPT !.setup_fetches = @ + 1]
    ELSE s1

(***************************************************************************)
(* add_source_buffer                                                       *)
(***************************************************************************)
\* The loop over the descriptor's tracks (lines 431-464).  `audio` and
\* `video` are the positions (from 1; 0 for none) of the tracks a sink was
\* created for, `calls` the number of sinks created, `failed` whether
\* MediaSource::add_source_buffer failed; add_ok[k] tells whether its k-th
\* call succeeds.
NoSinks == [audio |-> 0, video |-> 0, calls |-> 0, failed |-> FALSE]

\* The loop without the test of line 443 (video_buffer.is_some()).
RECURSIVE sink_loop_every_video(_, _, _, _)
sink_loop_every_video(tracks, i, acc, add_ok) ==
    IF i > Len(tracks) \/ acc.failed THEN acc
    ELSE LET track == tracks[i] IN
         IF ~IsTypeSupported(track.codec)
         THEN sink_loop_every_video(tracks, i + 1, acc, add_ok)
         ELSE IF track.name = "audio" /\ acc.audio # 0
         THEN sink_loop_every_video(tracks, i + 1, acc, add_ok)
         ELSE IF acc.calls < Len(add_ok) /\ ~add_ok[acc.calls + 1]
         THEN [acc EXCEPT !.failed = TRUE]
         ELSE IF track.name = "audio"
         THEN sink_loop_every_video(tracks, i + 1,
                  [acc EXCEPT !.audio = i, !.calls = @ + 1], add_ok)
         ELSE sink_loop_every_video(tracks, i + 1,
                  [acc EXCEPT !.video = i, !.calls = @ + 1], add_ok)

RECURSIVE sink_loop(_, _, _, _)
sink_loop(tracks, i, acc, add_ok) ==
    IF i > Len(tracks) \/ acc.failed THEN acc
    ELSE LET track == tracks[i] IN
         IF ~IsTypeSupported(track.codec)
         THEN sink_loop(tracks, i + 1, acc, add_ok)
         ELSE IF acc.video # 0 THEN sink_loop(tracks, i + 1, acc, add_ok)
         ELSE IF track.name = "audio" /\ acc.audio # 0
         THEN sink_loop(tracks, i + 1, acc, add_ok)
         ELSE IF ~add_ok[acc.calls + 1] THEN [acc EXCEPT !.failed = TRUE]
         ELSE IF track.name = "audio"
         THEN sink_loop(tracks, i + 1,
                        [acc EXCEPT !.audio = i, !.calls = @ + 1], add_ok)
         ELSE sink_loop(tracks, i + 1,
                        [acc EXCEPT !.video = i, !.calls = @ + 1], add_ok)

\* What add_source_buffer asked of the media source.
SetupCalled(s, setup_node, sinks) ==
    [s EXCEPT !.called = [op |-> "add_source_buffer", input |-> setup_node,
                          output |-> sinks]]

\* add_source_buffer that would tick after setting state to Load.
add_source_buffer_ticks(s, setup_node, env) ==
    IF ~s.source_open THEN s
    ELSE LET sinks == sink_loop(setup_node, 1, NoSinks,
                                <<env.add_sb_ok, env.add_sb_ok2>>)
             s0 == SetupCalled(s, setup_node, sinks)
         IN IF sinks.failed THEN s0
            ELSE IF sinks.audio = 0 \/ sinks.video = 0 THEN Panic(s0)
            ELSE tick(SpawnAppendFetch(
                        [s0 EXCEPT !.media_buffers =
                                      [is_some |-> TRUE, tracks |-> setup_node,
                                       video |-> VideoSink(
                                          setup_node[sinks.video].codec, 0)],
                                   !.state = "Load"],
                        [kind |-> "init", audio |-> TRUE, level |-> 1,
                         segment |-> None]), env)

add_source_buffer(s, setup_node, env) ==
    IF ~s.source_open THEN s
    ELSE LET sinks == sink_loop(setup_node, 1, NoSinks,
                                <<env.add_sb_ok, env.add_sb_ok2>>)
             s0 == SetupCalled(s, setup_node, sinks)
         IN IF sinks.failed THEN s0
            ELSE IF sinks.audio = 0 \/ sinks.video = 0 THEN Panic(s0)
            ELSE SpawnAppendFetch(
                    [s0 EXCEPT !.media_buffers =
                                  [is_some |-> TRUE, tracks |-> setup_node,
                                   video |-> VideoSink(
                                      setup_node[sinks.video].codec, 0)],
                               !.state = "Load"],
                    [kind |-> "init", audio |-> TRUE, level |-> 1,
                     segment |-> None])

(***************************************************************************)
(* append_buffers                                                          *)
(***************************************************************************)
append_buffers(s, f, env) ==
    IF ~s.media_buffers.is_some THEN Panic(s)
    ELSE IF env.append_ok
    THEN [s EXCEPT !.update_end = @ + 1,
                   !.media_buffers.video.init =
                      IF f.kind = "init" THEN f.level ELSE @]
    ELSE s


(***************************************************************************)
(* What a handler reads from the browser and the object store while it     *)
(* runs: the video sink's buffered ranges, the media element's time, the   *)
(* estimator's answer, and whether each browser call succeeds.             *)
(***************************************************************************)
EnvBase ==
    [buffered |-> <<>>, current_time |-> 0, ema |-> NoAvg,
     buffered_ok |-> TRUE, timeout_ok |-> TRUE,
     remove_audio_ok |-> TRUE, remove_video_ok |-> TRUE,
     change_type_ok |-> TRUE, add_sb_ok |-> TRUE, add_sb_ok2 |-> TRUE,
     append_ok |-> TRUE]

Range(a, b) == [start |-> a, end |-> b]

\* Duration of the VOD in the engine's runs.
VodDuration == 30

\* Readings of (buffered, current_time) that take check_status through each
\* of its decisions and flush_buffer through each of its ranges.
SinkReadings ==
    { [buffered |-> <<>>, current_time |-> 0],
      [buffered |-> <<Range(0, 4)>>, current_time |-> 0],
      [buffered |-> <<Range(0, 4)>>, current_time |-> 20],
      [buffered |-> <<Range(0, 20)>>, current_time |-> 0],
      [buffered |-> <<Range(0, VodDuration)>>, current_time |-> 0] }

\* Estimates the estimator may return.
AvgInputs == {NoAvg, 1, 5}

\* Browser calls that fail during one tick: none, or one of them.
TickFailures ==
    { EnvBase,
      [EnvBase EXCEPT !.timeout_ok = FALSE],
      [EnvBase EXCEPT !.remove_audio_ok = FALSE],
      [EnvBase EXCEPT !.remove_video_ok = FALSE],
      [EnvBase EXCEPT !.change_type_ok = FALSE] }

\* MediaSource::add_source_buffer succeeds, or fails at its first or at its
\* second call.
SetupEnvs ==
    { EnvBase, [EnvBase EXCEPT !.add_sb_ok = FALSE],
      [EnvBase EXCEPT !.add_sb_ok2 = FALSE] }

\* SourceBuffer::append_buffer succeeds or fails.
AppendEnvs == { EnvBase, [EnvBase EXCEPT !.append_ok = FALSE] }

WithReadings(F, A) ==
    { [f EXCEPT !.buffered = r.buffered, !.current_time = r.current_time,
                !.ema = a] :
        f \in F, r \in SinkReadings, a \in A }

\* The environments of a tick, by what the tick reads in the state it
\* starts from (a call that is not made cannot fail).
Envs ==
    CASE state = "AdaptativeBitrate" -> WithReadings(TickFailures, AvgInputs)
      [] state = "Status" ->
            WithReadings(TickFailures \ {[EnvBase EXCEPT !.change_type_ok = FALSE]},
                         {NoAvg})
      [] state = "Flush" ->
            WithReadings({EnvBase, [EnvBase EXCEPT !.remove_audio_ok = FALSE],
                          [EnvBase EXCEPT !.remove_video_ok = FALSE]}, {NoAvg})
      [] state = "Switch" -> {EnvBase, [EnvBase EXCEPT !.change_type_ok = FALSE]}
      [] state = "Load" /\ is_live -> {EnvBase, [EnvBase EXCEPT !.timeout_ok = FALSE]}
      [] state = "Load" /\ ~is_live -> WithReadings({EnvBase}, {NoAvg})
      [] state = "Timeout" -> {EnvBase, [EnvBase EXCEPT !.timeout_ok = FALSE]}

\* Setup descriptors the object store may return.
Audio == Track("audio", "opus", 1)
SetupInputs ==
    { <<Audio, Track("v1", "avc", 2)>>,
      <<Audio, Track("v1", "avc", 2), Track("v2", "avc", 4)>>,
      <<Audio, Track("v1", "unsupported", 2), Track("v2", "avc", 4)>>,
      <<Audio>> }

(***************************************************************************)
(* Initial states: the player after create().                              *)
(***************************************************************************)
RECURSIVE SeqsUpTo(_, _)
SeqsUpTo(S, n) ==
    IF n = 0 THEN {<<>>}
    ELSE LET shorter == SeqsUpTo(S, n - 1) IN
         shorter \cup {Append(q, x) : q \in shorter, x \in S}

InitPlayer ==
    /\ previous = None
    /\ buffer = <<>>
    /\ unordered_buffer = EmptyMap
    /\ media_buffers = [is_some |-> FALSE, tracks |-> <<>>,
                        video |-> VideoSink("none", 0)]
    /\ level = 1
    /\ state = "Timeout"
    /\ timeout_closure = FALSE
    /\ handle = 0
    /\ source_open = FALSE
    /\ node_fetches = [c \in Cids |-> 0]
    /\ setup_fetches = 0
    /\ append_fetches = EmptyBag
    /\ update_end = 0
    /\ timer_armed = FALSE
    /\ video_buffered = <<>>
    /\ current_time = 0
    /\ panicked = FALSE
    /\ yielded = <<>>
    /\ last_from = "nobody"
    /\ announced = <<>>
    /\ last_abr = [avg |-> NoAvg, next |-> 0, tracks |-> <<>>]
    /\ abr_calls = <<>>
    /\ flushed = NoFlush
    /\ last_call = NoCall
    /\ destroyed = FALSE

InitVod ==
    /\ InitPlayer
    /\ metadata = [is_some |-> TRUE, duration |-> VodDuration]
    /\ is_live = FALSE
    /\ streamer_peer_id = "nobody"
    /\ pubsub_queue = <<>>
    /\ subscription = "none"

\* The origin publishes each payload at most once.
Queues(n) == {q \in SeqsUpTo(Payloads, n) : \A i, j \in DOMAIN q : i # j => q[i] # q[j]}

InitLiveWith(n) ==
    /\ InitPlayer
    /\ metadata = [is_some |-> FALSE, duration |-> 0]
    /\ is_live = TRUE
    /\ streamer_peer_id = OriginPeer
    /\ pubsub_queue \in Queues(n)
    /\ subscription = "subscribed"

(***************************************************************************)
(* Actions: one per message of the component (Msg, lines 82-91).           *)
(***************************************************************************)
\* The component exists and no handler has panicked.
Running == ~panicked /\ ~destroyed

\* A step that handles no pub-sub message.
NotPubSub == last_from' = "nobody"

\* Msg::SourceOpen (callback_once)
OnSourceOpen ==
    /\ Running /\ ~source_open
    /\ Apply(on_source_open(St))
    /\ NotPubSub
    /\ UNCHANGED <<pubsub_queue, announced, sinkVars>>

\* Msg::PubSub from the origin: its next message
OnPubSubOrigin ==
    /\ Running /\ is_live /\ pubsub_queue # <<>>
    /\ Apply(on_pubsub_update(St, OriginPeer, Head(pubsub_queue)))
    /\ pubsub_queue' = Tail(pubsub_queue)
    /\ announced' = Append(announced, Head(pubsub_queue))
    /\ last_from' = OriginPeer
    /\ UNCHANGED sinkVars

\* Msg::PubSub from any other peer, with any payload
OnPubSubForeign ==
    /\ Running /\ is_live
    /\ \E from \in Peers \ {OriginPeer}, data \in Payloads :
          /\ Apply(on_pubsub_update(St, from, data))
          /\ last_from' = from
    /\ UNCHANGED <<pubsub_queue, announced, sinkVars>>

\* Msg::VideoNode: a node fetch completes
OnVideoNode ==
    /\ Running
    /\ \E cid \in Cids :
          /\ node_fetches[cid] > 0
          /\ Apply(buffer_video_node(
                [St EXCEPT !.node_fetches = [@ EXCEPT ![cid] = @ - 1]],
                cid, NodeOf(cid)))
    /\ NotPubSub
    /\ UNCHANGED <<pubsub_queue, announced, sinkVars>>

\* Msg::SetupNode: a setup fetch completes
OnSetupNodeWith(D, E) ==
    /\ Running /\ setup_fetches > 0
    /\ \E setup_node \in D, env \in E :
          Apply(add_source_buffer(
                [St EXCEPT !.setup_fetches = @ - 1], setup_node, env))
    /\ NotPubSub
    /\ UNCHANGED <<pubsub_queue, announced, sinkVars>>

\* Msg::Append: a segment fetch completes
OnAppendWith(E) ==
    /\ Running
    /\ \E f \in BagToSet(append_fetches), env \in E :
          Apply(append_buffers(
                [St EXCEPT !.append_fetches = @ (-) SetToBag({f})], f, env))
    /\ NotPubSub
    /\ UNCHANGED <<pubsub_queue, announced, sinkVars>>

\* Msg::UpdateEnd
OnUpdateEndWith(E) ==
    /\ Running /\ update_end > 0
    /\ \E env \in E :
          Apply(on_update_end([St EXCEPT !.update_end = @ - 1], env))
    /\ NotPubSub
    /\ UNCHANGED <<pubsub_queue, announced, sinkVars>>

\* Msg::Seeking (the listener is registered only with metadata, line 214)
OnSeeking ==
    /\ Running /\ metadata.is_some
    /\ Apply(on_seeking(St, EnvBase))
    /\ NotPubSub
    /\ UNCHANGED <<pubsub_queue, announced, sinkVars>>

\* Msg::Timeout: the installed timer fires
OnTimeoutWith(E) ==
    /\ Running /\ timer_armed
    /\ \E env \in E :
          Apply(on_timeout([St EXCEPT !.timer_armed = FALSE], env))
    /\ NotPubSub
    /\ UNCHANGED <<pubsub_queue, announced, sinkVars>>

(***************************************************************************)
(* The engine, VOD or live, in any environment.                            *)
(***************************************************************************)
\* Messages of the origin in a run of the whole engine.
EngineAnnounce == 2

Init == InitVod \/ InitLiveWith(EngineAnnounce)

OnSetupNode == OnSetupNodeWith(SetupInputs, SetupEnvs)
OnAppend == OnAppendWith(AppendEnvs)
OnUpdateEnd == OnUpdateEndWith(Envs)
OnTimeout == OnTimeoutWith(Envs)

Next ==
    \/ OnSourceOpen
    \/ OnPubSubOrigin
    \/ OnPubSubForeign
    \/ OnVideoNode
    \/ OnSetupNode
    \/ OnAppend
    \/ OnUpdateEnd
    \/ OnSeeking
    \/ OnTimeout

Spec == Init /\ [][Next]_vars


(***************************************************************************)
(* The live engine with a healthy browser: every call succeeds, the sink   *)
(* has nothing to flush and the estimator is not warm.  The origin         *)
(* publishes up to MaxAnnounce messages in any order.                      *)
(***************************************************************************)
InitLive == InitLiveWith(MaxAnnounce)

LiveSetupNode == OnSetupNodeWith({<<Audio, Track("v1", "avc", 2)>>}, {EnvBase})
LiveAppend == OnAppendWith({EnvBase})
LiveUpdateEnd == OnUpdateEndWith({EnvBase})
LiveTimeout == OnTimeoutWith({EnvBase})

NextLive ==
    \/ OnSourceOpen
    \/ OnPubSubOrigin
    \/ OnPubSubForeign
    \/ OnVideoNode
    \/ LiveSetupNode
    \/ LiveAppend
    \/ LiveUpdateEnd
    \/ LiveTimeout

SpecLive == InitLive /\ [][NextLive]_vars

\* The same engine when the origin publishes up to PubSubAnnounce messages.
PubSubAnnounce == 2

InitPubSub == InitLiveWith(PubSubAnnounce)

SpecPubSub == InitPubSub /\ [][NextLive]_vars


(***************************************************************************)
(* The live reorder buffer.                                                *)
(***************************************************************************)
BufferCids == [i \in DOMAIN buffer |-> buffer[i].cid]

NoDuplicates(q) == \A i, j \in DOMAIN q : i # j => q[i] # q[j]

\* Every element after the first links to the element before it.
IsChain(q) == \A i \in DOMAIN q : i > 1 => NodeOf(q[i]).previous = q[i - 1]

\* C1: the CIDs popped by load_live_segment form a predecessor chain: each
\* one's `previous` is the CID popped just before it, and none is popped
\* twice.
C1_YieldedIsChain == IsChain(yielded) /\ NoDuplicates(yielded)

\* C2: `buffer` is a chain (each entry's node links to the entry before it)
\* and, when it is not empty, its head's node links to LiveStream.previous.
C2_BufferIsChain ==
    /\ \A i \in DOMAIN buffer :
          i > 1 => buffer[i].node.previous = buffer[i - 1].cid
    /\ buffer # <<>> => buffer[1].node.previous = previous

\* C3: while the engine runs, no CID is both in `buffer` and in
\* `unordered_buffer`.
C3_BufferPendingDisjoint ==
    ~panicked =>
    \A i \in DOMAIN buffer : buffer[i].cid \notin DOMAIN unordered_buffer

\* C4: when the origin has announced the three nodes of the chain
\* 1 <- 2 <- 3 (in any order) and every node fetch has completed, the nodes
\* popped so far followed by those waiting in `buffer` are exactly 1, 2, 3,
\* and `unordered_buffer` is empty.
C4_ReorderComplete ==
    ( /\ ~panicked
      /\ pubsub_queue = <<>>
      /\ Len(announced) = 3
      /\ {announced[i] : i \in DOMAIN announced} = {1, 2, 3}
      /\ \A c \in Cids : node_fetches[c] = 0 )
    => /\ yielded \o BufferCids = <<1, 2, 3>>
       /\ DOMAIN unordered_buffer = {}

\* C5: a pub-sub message whose sender is not the streamer leaves previous,
\* buffer and unordered_buffer as they were and starts no node fetch and no
\* setup fetch.
C5_ForeignSenderNoEffect ==
    [][ (last_from' # "nobody" /\ last_from' # streamer_peer_id)
        => UNCHANGED <<previous, buffer, unordered_buffer,
                       node_fetches, setup_fetches>> ]_vars

\* A foreign message has just been handled while the reorder buffer holds
\* nodes and the streamer has more to publish.
C5_Witness ==
    /\ last_from = "other"
    /\ buffer # <<>>
    /\ DOMAIN unordered_buffer # {}
    /\ ~media_buffers.is_some


(***************************************************************************)
(* The VOD engine with an estimator that answers anything: the source      *)
(* opens, the setup descriptor is any list of an audio track and video     *)
(* qualities, each with a codec of its own, the segments are fetched and   *)
(* appended, and every update_end ticks the machine; the sink is empty,    *)
(* every append succeeds and change_type may fail.                         *)
(***************************************************************************)
\* Most video qualities of a descriptor.
MaxVideoTracks == 3
\* Largest bandwidth of a track.
MaxBandwidth == 4

\* The descriptor of the spec's scenarios.
ExampleTracks ==
    <<Track("audio", "opus", 64000), Track("v1", "avc", 500000),
      Track("v2", "avc", 1500000), Track("v3", "avc", 3000000)>>

VideoNames == <<"v1", "v2", "v3", "v4">>

\* Descriptors: audio first, then 1..MaxVideoTracks video qualities, in any
\* bandwidth order, the codec of a quality named as the quality is.
AbrTracks ==
    {ExampleTracks} \cup
    { <<Audio>> \o [i \in 1..Len(bw) |->
                      Track(VideoNames[i], VideoNames[i], bw[i])] :
        bw \in SeqsUpTo(1..MaxBandwidth, MaxVideoTracks) \ {<<>>} }

AbrAvgs == 0..(MaxBandwidth + 1) \cup {1500000, 1600000, 10000000}

\* What a tick reads: the estimator's answer and whether change_type
\* succeeds.
SwitchEnvs ==
    { [EnvBase EXCEPT !.ema = a, !.change_type_ok = ok] :
        a \in AbrAvgs \cup {NoAvg}, ok \in BOOLEAN }

InitAbr == InitVod

AbrSetupNode == OnSetupNodeWith(AbrTracks, {EnvBase})

AbrTick == OnUpdateEndWith(SwitchEnvs)

NextAbr == OnSourceOpen \/ AbrSetupNode \/ LiveAppend \/ AbrTick

SpecAbr == InitAbr /\ [][NextAbr]_vars

\* The video bandwidths of the tracks are in non-decreasing order.
Sorted(tracks) ==
    \A i \in 2..(Len(tracks) - 1) :
        TrackAt(tracks, i - 1).bandwidth <= TrackAt(tracks, i).bandwidth

\* The highest video index whose bandwidth satisfies P, or 1.
Highest(S) == IF S = {} THEN 1 ELSE CHOOSE i \in S : \A k \in S : k <= i

\* C8 as claimed, read for video bandwidths in non-decreasing order: the
\* selected level is the highest video index i >= 1 with
\* tracks[i].bandwidth <= avg_bitrate (1 when none above 1 qualifies), a tie
\* included.
C8_HighestNotExceeding ==
    \A n \in DOMAIN abr_calls :
        Sorted(media_buffers.tracks) =>
            abr_calls[n].next =
                Highest({i \in 2..(Len(media_buffers.tracks) - 1) :
                           TrackAt(media_buffers.tracks, i).bandwidth
                               <= abr_calls[n].avg})

\* C8 as amended: the selected level is the first index n >= 1 whose
\* successor track is absent or has bandwidth >= avg_bitrate; for video
\* bandwidths in non-decreasing order that is the highest video index i >= 1
\* with tracks[i].bandwidth < avg_bitrate, strictly (1 when none above 1
\* qualifies), so an estimate equal to tracks[i].bandwidth does not select
\* i.  The spec's descriptor gives level 2 for 1600000, 3 for 10000000 and
\* 1 for 1500000.
C8_HighestStrictlyBelow ==
    \A n \in DOMAIN abr_calls :
        LET tracks == media_buffers.tracks
            call == abr_calls[n]
        IN /\ 1 <= call.next /\ call.next <= Len(tracks) - 1
           /\ \A i \in 2..call.next : TrackAt(tracks, i).bandwidth < call.avg
           /\ HasTrack(tracks, call.next + 1)
                 => call.avg <= TrackAt(tracks, call.next + 1).bandwidth
           /\ Sorted(tracks) =>
                 call.next =
                    Highest({i \in 2..(Len(tracks) - 1) :
                               TrackAt(tracks, i).bandwidth < call.avg})
           /\ (tracks = ExampleTracks /\ call.avg = 1600000) => call.next = 2
           /\ (tracks = ExampleTracks /\ call.avg = 10000000) => call.next = 3
           /\ (tracks = ExampleTracks /\ call.avg = 1500000) => call.next = 1

\* A tie has been decided: the estimate equals the bandwidth of a video
\* track above index 1 and the level below it was selected.
C8_Witness ==
    /\ abr_calls # <<>>
    /\ Sorted(media_buffers.tracks)
    /\ \E i \in 2..(Len(media_buffers.tracks) - 1) :
          /\ TrackAt(media_buffers.tracks, i).bandwidth = abr_calls[1].avg
          /\ TrackAt(media_buffers.tracks, i - 1).bandwidth < abr_calls[1].avg
          /\ abr_calls[1].next = i - 1

\* C9: for fixed tracks and two successive estimates a1 <= a2, the level
\* selected for a2 is at least the level selected for a1.
C9_AbrMonotone ==
    (Len(abr_calls) = 2 /\ abr_calls[1].avg <= abr_calls[2].avg)
        => abr_calls[1].next <= abr_calls[2].next

\* Two successive selections with a1 < a2 where the level went up, from a
\* level above 1.
C9_Witness ==
    /\ Len(abr_calls) = 2
    /\ abr_calls[1].avg < abr_calls[2].avg
    /\ 1 < abr_calls[1].next
    /\ abr_calls[1].next < abr_calls[2].next


(***************************************************************************)
(* The engine, VOD or live, on a sink and a media element that the browser *)
(* moves: between two messages the buffered ranges of the video sink or    *)
(* the media element's time may become any of a grid's values; the         *)
(* handlers read them, and a remove the sink accepts takes its range out.  *)
(***************************************************************************)
\* Times are multiples of TimeStep seconds, up to TimeStep * MaxSteps.
TimeStep == 5
MaxSteps == 6
\* Most disjoint ranges the sink holds.
MaxRanges == 2

TimeGrid == {TimeStep * k : k \in 0..MaxSteps}

\* The ranges whose starts and ends are the points of P, in ascending order.
RECURSIVE RangesOf(_)
RangesOf(P) ==
    IF P = {} THEN <<>>
    ELSE LET a == CHOOSE x \in P : \A y \in P : x <= y
             b == CHOOSE x \in P \ {a} : \A y \in P \ {a} : x <= y
         IN <<Range(a, b)>> \o RangesOf(P \ {a, b})

\* Ascending, disjoint, non-empty ranges over the grid.
RangeLists ==
    { RangesOf(P) : P \in { Q \in SUBSET TimeGrid :
                              /\ Cardinality(Q) % 2 = 0
                              /\ Cardinality(Q) <= 2 * MaxRanges } }

\* What is left of the range r after SourceBuffer::remove(start, end).
RECURSIVE SinkRemove(_, _, _)
SinkRemove(ranges, start, end) ==
    IF ranges = <<>> THEN <<>>
    ELSE LET r == Head(ranges)
             left == IF r.start < start
                     THEN <<Range(r.start, IF r.end < start THEN r.end ELSE start)>>
                     ELSE <<>>
             right == IF end < r.end
                      THEN <<Range(IF r.start > end THEN r.start ELSE end, r.end)>>
                      ELSE <<>>
         IN left \o right \o SinkRemove(Tail(ranges), start, end)

\* A VOD, or a live stream whose origin publishes one message.
InitBuffer == InitVod \/ InitLiveWith(1)

\* What a handler reads from the sink and the media element; one of the
\* removes may be refused.
BufferEnvs ==
    { [f EXCEPT !.buffered = video_buffered, !.current_time = current_time] :
        f \in {EnvBase, [EnvBase EXCEPT !.remove_audio_ok = FALSE],
               [EnvBase EXCEPT !.remove_video_ok = FALSE]} }

\* The sink after a handler that returned r: what its flush removed is gone.
Removed(r) ==
    IF r.removed.range = <<>> THEN video_buffered
    ELSE SinkRemove(video_buffered, r.removed.range[1], r.removed.range[2])

\* Msg::UpdateEnd
BufferTick ==
    /\ Running /\ update_end > 0
    /\ \E env \in BufferEnvs :
          LET r == on_update_end([St EXCEPT !.update_end = @ - 1], env)
          IN Apply(r) /\ video_buffered' = Removed(r)
    /\ NotPubSub
    /\ UNCHANGED <<pubsub_queue, announced, current_time>>

\* Msg::Timeout
BufferTimeout ==
    /\ Running /\ timer_armed
    /\ \E env \in BufferEnvs :
          LET r == on_timeout([St EXCEPT !.timer_armed = FALSE], env)
          IN Apply(r) /\ video_buffered' = Removed(r)
    /\ NotPubSub
    /\ UNCHANGED <<pubsub_queue, announced, current_time>>

\* The browser, before it delivers an update_end or a timeout: media is
\* parsed or evicted, the element plays or is moved.
SinkMoves ==
    /\ Running /\ media_buffers.is_some
    /\ update_end > 0 \/ timer_armed
    /\ \/ video_buffered' \in RangeLists /\ UNCHANGED current_time
       \/ current_time' \in TimeGrid /\ UNCHANGED video_buffered
    /\ flushed' = NoFlush /\ last_call' = NoCall
    /\ NotPubSub
    /\ UNCHANGED <<constVars, liveVars, playerVars, source_open, pubsub_queue,
                   fetchVars, update_end, timer_armed, panicked, yielded,
                   announced, last_abr, abr_calls, lifeVars>>

NextBuffer ==
    \/ OnSourceOpen
    \/ OnPubSubOrigin
    \/ OnVideoNode
    \/ LiveSetupNode
    \/ LiveAppend
    \/ BufferTick
    \/ BufferTimeout
    \/ OnSeeking
    \/ SinkMoves

SpecBuffer == InitBuffer /\ [][NextBuffer]_vars

\* C10: after a flush that Status rule (1) triggered and whose removes
\* succeeded, the first buffered range of the video sink starts at or after
\* current_time - BACK_BUFFER_LENGTH.
C10_BackBufferBound ==
    (flushed.by = "Status" /\ flushed.range # <<>> /\ video_buffered # <<>>)
        => video_buffered[1].start >= current_time - BACK_BUFFER_LENGTH


\* C6: at most one segment/init append fetch is in flight at any time.
C6_OneAppendInFlight == BagCardinality(append_fetches) <= 1

\* C7: once tracks are set, level is a valid video-track index:
\* 1 <= level <= len(tracks) - 1.
C7_LevelInRange ==
    media_buffers.is_some
        => (1 <= level /\ level <= Len(media_buffers.tracks) - 1)


(***************************************************************************)
(* The free functions on their own: one call on an input drawn from a      *)
(* bounded set.                                                            *)
(***************************************************************************)
\* Every variable but last_call.
engineVars ==
    <<constVars, liveVars, playerVars, source_open, pubsub_queue, fetchVars,
      update_end, timer_armed, sinkVars, panicked, yielded, last_from,
      announced, last_abr, abr_calls, flushed, lifeVars>>

\* Whole seconds 0..MaxSeconds are converted, and the seconds around each
\* hour boundary below.
MaxSeconds == 130

\* The first hour count that a u8 cannot hold.
U8Hours == 256

TimecodeInputs ==
    0..MaxSeconds
    \cup {3599, 3600, 3725, 86399, 86400}
    \cup {h * 3600 + d : h \in {U8Hours - 1, U8Hours, U8Hours + 44},
                         d \in {0, 59, 60, 3599}}

TimecodeCall ==
    /\ last_call = NoCall
    /\ \E x \in TimecodeInputs :
          last_call' = [op |-> "seconds_to_timecode", input |-> x,
                        output |-> seconds_to_timecode(x)]
    /\ UNCHANGED engineVars

SpecTimecode == InitVod /\ [][TimecodeCall]_vars

\* C12: for every non-negative whole second R, seconds_to_timecode(R) =
\* (H, M, S) with H * 3600 + M * 60 + S = R and M, S in 0..59, H not being
\* cut by its width; 3725 gives (1, 2, 5), 60 gives (0, 1, 0), 0 gives
\* (0, 0, 0).
C12_TimecodeExact ==
    last_call.op = "seconds_to_timecode" =>
        LET R == last_call.input
            H == last_call.output[1]
            M == last_call.output[2]
            S == last_call.output[3]
        IN /\ H * 3600 + M * 60 + S = R
           /\ M \in 0..59 /\ S \in 0..59
           /\ H = R \div 3600
           /\ R = 3725 => <<H, M, S>> = <<1, 2, 5>>
           /\ R = 60 => <<H, M, S>> = <<0, 1, 0>>
           /\ R = 0 => <<H, M, S>> = <<0, 0, 0>>


(***************************************************************************)
(* The VOD engine on a sink that holds what was appended to it: the        *)
(* browser calls succeed, the media element plays through what is          *)
(* buffered, and the user seeks.                                           *)
(***************************************************************************)
\* buff_end as load_media_segment reads it (lines 547-555)
BuffEnd(ranges) == IF ranges = <<>> THEN 0 ELSE ranges[Len(ranges)].end

\* The object at /time/hour/H/minute/M/second/S holds the media of second
\* H:M:S of the video: [T, T + 1].
SegmentSpan(tc) ==
    LET T == tc[1] * 3600 + tc[2] * 60 + tc[3] IN Range(T, T + 1)

\* The sink's ranges after appending media that covers [a, b].
RECURSIVE SinkAppend(_, _, _)
SinkAppend(ranges, a, b) ==
    IF ranges = <<>> THEN <<Range(a, b)>>
    ELSE LET r == Head(ranges) IN
         IF b < r.start THEN <<Range(a, b)>> \o ranges
         ELSE IF r.end < a THEN <<r>> \o SinkAppend(Tail(ranges), a, b)
         ELSE SinkAppend(Tail(ranges), IF a < r.start THEN a ELSE r.start,
                         IF b > r.end THEN b ELSE r.end)

\* What a handler reads from this sink and media element.
SinkEnv ==
    [EnvBase EXCEPT !.buffered = video_buffered, !.current_time = current_time]

\* The sink after a handler that returned r: what its flush removed is gone.
SinkAfter(r) ==
    IF r.removed.range = <<>> THEN video_buffered
    ELSE SinkRemove(video_buffered, r.removed.range[1], r.removed.range[2])

\* A video long enough for its hours to pass a u8, and a place near that
\* hour to seek to.
LongDuration == U8Hours * 3600 + 3
LongStart == U8Hours * 3600 - 2

InitVodSink ==
    /\ InitPlayer
    /\ metadata \in {[is_some |-> TRUE, duration |-> d] :
                        d \in {VodDuration, LongDuration}}
    /\ is_live = FALSE
    /\ streamer_peer_id = "nobody"
    /\ pubsub_queue = <<>>
    /\ subscription = "none"

\* The store holds the init segments and one media segment per second of
\* the video.
SegmentExists(f) ==
    IF f.kind = "init" THEN TRUE
    ELSE SegmentSpan(f.segment).start < metadata.duration

VodAppend ==
    /\ Running
    /\ \E f \in BagToSet(append_fetches) :
          /\ SegmentExists(f)
          /\ Apply(append_buffers(
                [St EXCEPT !.append_fetches = @ (-) SetToBag({f})], f, EnvBase))
          /\ video_buffered' =
                IF f.kind = "media"
                THEN SinkAppend(video_buffered, SegmentSpan(f.segment).start,
                                SegmentSpan(f.segment).end)
                ELSE video_buffered
    /\ NotPubSub
    /\ UNCHANGED <<pubsub_queue, announced, current_time>>

\* A fetch of an object the store does not hold fails: no message is sent.
VodFetchFails ==
    /\ Running
    /\ \E f \in BagToSet(append_fetches) :
          /\ ~SegmentExists(f)
          /\ Apply([St EXCEPT !.append_fetches = @ (-) SetToBag({f})])
    /\ NotPubSub
    /\ UNCHANGED <<pubsub_queue, announced, sinkVars>>

VodUpdateEnd ==
    /\ Running /\ update_end > 0
    /\ LET r == on_update_end([St EXCEPT !.update_end = @ - 1], SinkEnv)
       IN Apply(r) /\ video_buffered' = SinkAfter(r)
    /\ NotPubSub
    /\ UNCHANGED <<pubsub_queue, announced, current_time>>

VodTimeout ==
    /\ Running /\ timer_armed
    /\ LET r == on_timeout([St EXCEPT !.timer_armed = FALSE], SinkEnv)
       IN Apply(r) /\ video_buffered' = SinkAfter(r)
    /\ NotPubSub
    /\ UNCHANGED <<pubsub_queue, announced, current_time>>

\* The user seeks: the media element's time jumps and Msg::Seeking is sent.
VodSeek ==
    /\ Running /\ metadata.is_some
    /\ current_time' \in IF metadata.duration = VodDuration
                         THEN {0, VodDuration \div 2} ELSE {LongStart}
    /\ current_time' # current_time
    /\ Apply(on_seeking(St, SinkEnv))
    /\ NotPubSub
    /\ UNCHANGED <<pubsub_queue, announced, video_buffered>>

\* The media element plays one second of what is buffered.
VodPlay ==
    /\ Running /\ media_buffers.is_some
    /\ \E i \in DOMAIN video_buffered :
          /\ video_buffered[i].start <= current_time
          /\ current_time < video_buffered[i].end
    /\ current_time' = current_time + 1
    /\ UNCHANGED <<constVars, liveVars, playerVars, source_open, pubsub_queue,
                   fetchVars, update_end, timer_armed, video_buffered, panicked,
                   yielded, last_from, announced, last_abr, abr_calls, flushed,
                   last_call, lifeVars>>

\* The long video is opened once the user has moved the media element to
\* LongStart.
VodSourceOpen ==
    /\ metadata.duration = VodDuration \/ current_time = LongStart
    /\ OnSourceOpen

NextVodSink ==
    \/ VodSourceOpen
    \/ LiveSetupNode
    \/ VodAppend
    \/ VodFetchFails
    \/ VodUpdateEnd
    \/ VodTimeout
    \/ VodSeek
    \/ VodPlay

SpecVodSink == InitVodSink /\ [][NextVodSink]_vars

\* A fetched media segment has just been appended to the sinks.
MediaAppended ==
    \E f \in BagToSet(append_fetches) :
        /\ f.kind = "media"
        /\ append_fetches' = append_fetches (-) SetToBag({f})
        /\ update_end' = update_end + 1

\* C11: in VOD, each successful load-and-append of a media segment strictly
\* increases the video sink's buff_end, as long as buff_end is below
\* metadata.duration.
C11_LoadAdvances ==
    [][ (~is_live /\ MediaAppended
            /\ BuffEnd(video_buffered) < metadata.duration)
        => BuffEnd(video_buffered') > BuffEnd(video_buffered) ]_vars


\* The step handles a seek: the media element's time jumped and the state is
\* Flush.
SeekStep ==
    /\ state' = "Flush"
    /\ current_time' # current_time
    /\ state # "Flush" \/ current_time' # current_time + 1

\* C13: on a seek the controller sets state = Flush and runs tick() within
\* the same message: the step ends as a tick in Flush at the new time ends,
\* with the flush executed.
C13_SeekTicks ==
    [][ SeekStep =>
          LET r == tick([St EXCEPT !.state = "Flush"],
                        [SinkEnv EXCEPT !.current_time = current_time'])
          IN /\ state' = r.state
             /\ update_end' = r.update_end
             /\ video_buffered' = SinkAfter(r) ]_vars


\* buff_start as Status reads it from the sink's ranges (which range it is
\* read from is the subject of C27).
StatusStart ==
    IF video_buffered = <<>> THEN 0
    ELSE video_buffered[Len(video_buffered)].start

\* The step is a tick of the machine on the sink as it is: an update_end or
\* a timeout is handled.
SinkTick == BufferTick \/ BufferTimeout

\* The update_end count and the timer once the message of the tick is
\* taken, before the handler runs.
TickUpdateEnd == IF BufferTimeout THEN update_end ELSE update_end - 1
TickTimer == IF BufferTimeout THEN FALSE ELSE timer_armed

\* The step starts no fetch and installs no timer.
NoFetchNoTimer == UNCHANGED fetchVars /\ timer_armed' = TickTimer

\* C14: a tick that runs Status (a tick of a machine resting in Status, or
\* the tick of AdaptativeBitrate with an estimator that is not warm, which
\* sets Status and ticks again) decides by the first matching rule:
\* (1) current_time > buff_start + 8 flushes; (2) VOD and buff_end >=
\* metadata.duration is End-of-Video: no fetch, no timer; (3) VOD and
\* current_time + 16 < buff_end installs the 1 s timer and starts no fetch;
\* (4) otherwise Load.  Live never takes (2) or (3).
C14_StatusRules ==
    [][ ( /\ state \in {"Status", "AdaptativeBitrate"}
          /\ media_buffers.is_some
          /\ HasTrack(media_buffers.tracks, level)
          /\ SinkTick ) =>
          IF current_time > StatusStart + 8
          THEN /\ flushed'.by = "Status"
               /\ \/ /\ flushed'.range # <<>>
                     /\ state' = "Load"
                     /\ update_end' = TickUpdateEnd + 1
                  \/ /\ flushed'.range = <<>>
                     /\ state' = "Status"
                     /\ update_end' = TickUpdateEnd
                     /\ UNCHANGED video_buffered
               /\ NoFetchNoTimer
          ELSE /\ flushed' = NoFlush
               /\ UNCHANGED video_buffered
               /\ update_end' = TickUpdateEnd
               /\ IF ~is_live /\ BuffEnd(video_buffered) >= metadata.duration
                  THEN NoFetchNoTimer /\ state' = "Status"
                  ELSE IF ~is_live
                          /\ current_time + 16 < BuffEnd(video_buffered)
                  THEN /\ timer_armed' /\ timeout_closure'
                       /\ state' = "Status"
                       /\ UNCHANGED fetchVars
                  ELSE IF is_live /\ buffer = <<>>
                  THEN /\ timer_armed' /\ timeout_closure'
                       /\ UNCHANGED fetchVars
                  ELSE /\ BagCardinality(append_fetches')
                             = BagCardinality(append_fetches) + 1
                       /\ state' = "AdaptativeBitrate"
                       /\ is_live => buffer' = Tail(buffer)
                       /\ timer_armed' = TickTimer ]_vars

\* A VOD tick in Status has taken rule (3): two ranges are buffered, the
\* last one ends before the duration and more than 16 s ahead of a time
\* that is not past its start by more than 8 s, and the timer is installed.
C14_Witness ==
    /\ ~is_live /\ state = "Status" /\ timer_armed
    /\ flushed = NoFlush /\ last_call = NoCall /\ last_from = "nobody"
    /\ Len(video_buffered) = 2
    /\ current_time + 16 < BuffEnd(video_buffered)
    /\ BuffEnd(video_buffered) < metadata.duration


(***************************************************************************)
(* Sink errors.                                                            *)
(***************************************************************************)
\* Nothing is left that could send the component a message that ticks it or
\* delivers data: no timer, no fetch in flight, no update_end queued.
Idle ==
    /\ ~timer_armed
    /\ update_end = 0
    /\ append_fetches = EmptyBag
    /\ setup_fetches = 0
    /\ \A c \in Cids : node_fetches[c] = 0

\* The step called a sink operation: append_buffer (an append fetch was
\* delivered), remove (flush_buffer ran) or change_type (a tick in Switch
\* with a track at `level`).
SinkCalled ==
    \/ BagCardinality(append_fetches') < BagCardinality(append_fetches)
    \/ flushed' # NoFlush
    \/ /\ state = "Switch" /\ HasTrack(media_buffers.tracks, level)
       /\ update_end' < update_end \/ (timer_armed /\ ~timer_armed')

\* C15: a step that calls a sink operation (append, remove, change_type),
\* whether the call succeeds or fails, never leaves the engine idle: after
\* it a timer, a fetch or an update_end is pending.
C15_NeverIdle ==
    [][ (media_buffers.is_some /\ ~panicked' /\ SinkCalled) => ~Idle' ]_vars


(***************************************************************************)
(* Out-of-order live nodes.                                                *)
(***************************************************************************)
\* The node at c extends neither an empty buffer from LiveStream.previous
\* nor a non-empty buffer from its tail.
OutOfOrder(c) ==
    /\ ~(buffer = <<>> /\ NodeOf(c).previous = previous)
    /\ ~(buffer # <<>> /\ NodeOf(c).previous = BackCid(buffer))

\* C16: when a delivered node is out of order, buffer_video_node completes
\* without failing, stores the node in unordered_buffer under its own CID,
\* leaves buffer as it is and, when the node has a `previous`, starts a
\* fetch of it; this holds also for a node without `previous`.
C16_OutOfOrderStored ==
    [][ \A c \in Cids :
          (is_live /\ node_fetches'[c] < node_fetches[c] /\ OutOfOrder(c))
          => /\ ~panicked'
             /\ c \in DOMAIN unordered_buffer'
             /\ unordered_buffer'[c] = NodeOf(c)
             /\ buffer' = buffer
             /\ NodeOf(c).previous # None
                  => node_fetches'[NodeOf(c).previous]
                        = node_fetches[NodeOf(c).previous] + 1 ]_vars


(***************************************************************************)
(* Pub-sub payloads that are not CIDs.                                     *)
(***************************************************************************)
\* C17: when the origin's message does not decode as a CID, handling it
\* starts no fetch and leaves the LiveStream (previous, buffer,
\* unordered_buffer), the machine state, the level, the buffers and the
\* timer as they were.
C17_UndecodableNoOp ==
    [][ ( /\ last_from' = OriginPeer
          /\ pubsub_queue # <<>>
          /\ pubsub_queue' = Tail(pubsub_queue)
          /\ Head(pubsub_queue) = Undecodable )
        => UNCHANGED <<liveVars, playerVars, fetchVars, timer_armed,
                       update_end, panicked>> ]_vars

\* The origin's undecodable message has just been handled, after a CID of
\* its own whose node is in the reorder buffer.
C17_Witness ==
    /\ last_from = OriginPeer
    /\ Len(announced) = 2
    /\ announced[2] = Undecodable
    /\ buffer # <<>>


(***************************************************************************)
(* destroy: the component is dropped.                                      *)
(***************************************************************************)
\* destroy with the clear_timeout of lines 235-237 left out.
destroy_keeps_timer(s, sub) ==
    [subscription |-> IF s.is_live THEN "unsubscribed" ELSE sub,
     timer_armed |-> s.timer_armed]

\* What destroy does to the topic subscription `sub` and to the timer.
destroy(s, sub) ==
    [subscription |-> IF s.is_live THEN "unsubscribed" ELSE sub,
     timer_armed |-> IF s.handle # 0 THEN FALSE ELSE s.timer_armed]

\* The framework drops the component; no message is handled afterwards.
OnDestroy ==
    /\ Running
    /\ LET r == destroy(St, subscription) IN
          /\ subscription' = r.subscription
          /\ timer_armed' = r.timer_armed
    /\ destroyed' = TRUE
    /\ NotPubSub
    /\ UNCHANGED <<constVars, liveVars, playerVars, source_open, pubsub_queue,
                   fetchVars, update_end, sinkVars, panicked, yielded,
                   announced, last_abr, abr_calls, flushed, last_call>>

\* A VOD or a live engine with a healthy browser, destroyed at any moment.
InitDestroy == InitVod \/ InitPubSub

NextDestroy == NextLive \/ OnDestroy

SpecDestroy == InitDestroy /\ [][NextDestroy]_vars

\* C18: once the component is destroyed no timer is pending (so no
\* on_timeout can be delivered), a live engine's topic is unsubscribed and a
\* VOD engine, which never subscribed, has performed no unsubscribe.
C18_DestroyReleases ==
    destroyed => /\ ~timer_armed
                 /\ is_live => subscription = "unsubscribed"
                 /\ ~is_live => subscription = "none"

\* A live engine destroyed while its 1 s timer was installed.
C18_Witness ==
    /\ destroyed
    /\ is_live
    /\ handle # 0
    /\ timeout_closure
    /\ subscription = "unsubscribed"


(***************************************************************************)
(* SignedMessage::verify (linked-data/src/signature.rs).                   *)
(*                                                                         *)
(* A message is described by what verify reads of it: the length of        *)
(* `signature`, its last byte v, and what the secp256k1 and keccak         *)
(* computations answer for its bytes: whether r || s parses as a           *)
(* signature, whether a public key is recovered, and whether the low 20    *)
(* bytes of the key's hash equal `address`.                                *)
(***************************************************************************)
\* Longest `signature` of a message.
MaxSigLen == 66

VerifyInputs ==
    [len : {0} \cup 63..MaxSigLen, v : 0..255, sig_parses : BOOLEAN,
     recovers : BOOLEAN, address_matches : BOOLEAN]

\* RecoveryId::parse_rpc accepts 27..30.
verify(m) ==
    IF m.len # 65 THEN "false"
    ELSE IF ~m.sig_parses THEN "panic"
    ELSE IF ~(m.v >= 27 /\ m.v < 27 + 4) THEN "panic"
    ELSE IF ~m.recovers THEN "false"
    ELSE IF m.address_matches THEN "true" ELSE "false"

VerifyCall ==
    /\ last_call = NoCall
    /\ \E m \in VerifyInputs :
          last_call' = [op |-> "verify", input |-> m, output |-> verify(m)]
    /\ UNCHANGED engineVars

SpecVerify == InitVod /\ [][VerifyCall]_vars

\* Parsing and public-key recovery succeed for the message.
Recovered(m) ==
    /\ m.len = 65
    /\ m.sig_parses
    /\ m.v >= 27 /\ m.v < 27 + 4
    /\ m.recovers

\* C19: verify always answers with a boolean, and answers true exactly when
\* the public key is recovered and its address equals `address`; when
\* parsing or recovery fails it answers false.
C19_VerifyTotal ==
    last_call.op = "verify"
    => /\ last_call.output \in {"true", "false"}
       /\ last_call.output = "true"
            <=> (Recovered(last_call.input) /\ last_call.input.address_matches)


(***************************************************************************)
(* Extension of the live buffer from unordered_buffer.                     *)
(***************************************************************************)
\* C20: after a step of buffer_video_node that appended to buffer, no node
\* of unordered_buffer has the CID at the tail of buffer as its `previous`:
\* every node that extends the tail has been moved to buffer.
C20_ExtendByPredecessor ==
    [][ Len(buffer') > Len(buffer)
        => \A c \in DOMAIN unordered_buffer' :
              unordered_buffer'[c].previous # BackCid(buffer') ]_vars


(***************************************************************************)
(* The ticks of each machine state.                                        *)
(***************************************************************************)
\* The step handled an update_end, or a timeout whose timer was not
\* installed again.
Ticked == update_end' = update_end - 1 \/ (timer_armed /\ ~timer_armed')

\* Append fetches started by the step.
AppendsStarted == BagCardinality(append_fetches') - BagCardinality(append_fetches)

\* C21: a tick in Load either finds a segment (state becomes
\* AdaptativeBitrate and exactly one append fetch is started), or, live with
\* an empty buffer, moves to state Timeout with a 1 s timer pending and no
\* fetch started.
C21_LoadDecides ==
    [][ (state = "Load" /\ media_buffers.is_some /\ Ticked)
        => IF is_live /\ buffer = <<>>
           THEN /\ state' = "Timeout"
                /\ timer_armed'
                /\ UNCHANGED fetchVars
           ELSE /\ state' = "AdaptativeBitrate"
                /\ AppendsStarted = 1 ]_vars


\* C22: a timer is recorded as pending (timeout_closure is set, which is
\* what set_timeout tests before installing) exactly when a timer is
\* installed and has not fired, and then its handle is recorded.
C22_TimerRecorded ==
    /\ timeout_closure <=> timer_armed
    /\ timer_armed => handle # 0


(***************************************************************************)
(* The quality switch.                                                     *)
(***************************************************************************)
\* C23: a tick in AdaptativeBitrate, for what the estimator answers: when
\* it is not warm or the selected level is the current one, level is
\* unchanged and the step ends as a tick in Status does; otherwise level is
\* the selected level and the step ends as a tick in Switch does.
C23_AbrTick ==
    [][ (state = "AdaptativeBitrate" /\ media_buffers.is_some /\ Ticked)
        => \E env \in SwitchEnvs :
              LET s == [St EXCEPT !.update_end = @ - 1]
                  sel == IF env.ema = NoAvg THEN level
                         ELSE SelectLevel(media_buffers.tracks, env.ema)
                  r == IF sel = level
                       THEN tick([s EXCEPT !.state = "Status"], env)
                       ELSE tick([s EXCEPT !.level = sel, !.state = "Switch"],
                                 env)
              IN /\ level' = sel
                 /\ state' = r.state
                 /\ append_fetches' = r.append_fetches
                 /\ update_end' = r.update_end
                 /\ timer_armed' = r.timer_armed
                 /\ sel = level => last_call' = NoCall
                 /\ media_buffers' = r.media_buffers
                 /\ media_buffers'.tracks = media_buffers.tracks ]_vars

\* The estimator's answer selected another level and the sink has just been
\* switched to it.
C23_Witness ==
    /\ last_call.op = "change_type"
    /\ state = "Load"
    /\ last_abr.avg # NoAvg
    /\ last_abr.next = level
    /\ level > 1

\* The append fetch of the video init segment of a level, without audio.
InitFetch(lvl) ==
    [kind |-> "init", audio |-> FALSE, level |-> lvl, segment |-> None]

\* C24: a tick that runs in Switch (the tick of AdaptativeBitrate that has
\* just selected another level, or a tick of a machine resting in Switch)
\* either changes the video sink's codec to tracks[level].codec, sets state
\* to Load and starts exactly one append of that level's video init segment
\* without audio, or, the codec change failing, starts no fetch and stays
\* in Switch; level keeps the value it had when Switch was entered.  A
\* codec change and a video-only init append happen only together.
C24_SwitchTick ==
    [][ /\ ( /\ media_buffers.is_some /\ Ticked
             /\ HasTrack(media_buffers.tracks, level)
             /\ \/ state = "Switch" /\ level' = level
                \/ state = "AdaptativeBitrate" /\ level' # level )
           => \/ /\ last_call' =
                      [op |-> "change_type",
                       input |-> TrackAt(media_buffers.tracks, level').codec,
                       output |-> "ok"]
                 /\ media_buffers'.video.codec
                      = TrackAt(media_buffers.tracks, level').codec
                 /\ state' = "Load"
                 /\ append_fetches'
                      = append_fetches (+) SetToBag({InitFetch(level')})
              \/ /\ last_call' = NoCall
                 /\ state' = "Switch"
                 /\ UNCHANGED <<fetchVars, media_buffers>>
        /\ last_call'.op = "change_type"
           => /\ last_call'.input = TrackAt(media_buffers'.tracks, level').codec
              /\ state' = "Load"
              /\ append_fetches'
                   = append_fetches (+) SetToBag({InitFetch(level')}) ]_vars

\* Another level was selected and the codec change failed: the machine rests in
\* Switch with the new level and nothing in flight.
C24_Witness ==
    /\ state = "Switch"
    /\ last_abr.avg # NoAvg
    /\ last_abr.next = level
    /\ level > 1
    /\ append_fetches = EmptyBag
    /\ update_end = 0


(***************************************************************************)
(* Setup.                                                                  *)
(***************************************************************************)
\* The append fetch of the audio init segment (tracks[0]) together with the
\* video init segment of level 1 (tracks[1]).
SetupFetch == [kind |-> "init", audio |-> TRUE, level |-> 1, segment |-> None]

\* C25: when the setup descriptor is delivered to a player in its initial
\* state (Timeout, level 1, no buffers) whose media source is open, the
\* buffers are installed with the descriptor's tracks, state becomes Load
\* and exactly one append of the two init segments is requested; the machine
\* is not ticked: no timer, no update_end, no other fetch, and the live
\* buffer is not popped.
C25_SetupNoTick ==
    [][ ( /\ setup_fetches' = setup_fetches - 1
          /\ state = "Timeout" /\ level = 1
          /\ ~media_buffers.is_some /\ source_open )
        => /\ media_buffers'.is_some
           /\ Len(media_buffers'.tracks) >= 2
           /\ state' = "Load"
           /\ level' = 1
           /\ append_fetches' = append_fetches (+) SetToBag({SetupFetch})
           /\ ~panicked'
           /\ UNCHANGED <<liveVars, node_fetches, update_end, timer_armed,
                          timeout_closure, handle, yielded>> ]_vars

\* The live player has just been set up while a node was waiting in buffer:
\* only the init append is in flight and the node has not been popped.
C25_Witness ==
    /\ is_live
    /\ state = "Load"
    /\ media_buffers.is_some
    /\ append_fetches = SetToBag({SetupFetch})
    /\ update_end = 0
    /\ buffer # <<>>
    /\ yielded = <<>>


(***************************************************************************)
(* Flush.                                                                  *)
(***************************************************************************)
\* The range flush_buffer asks both sinks to remove: from buff_start to
\* current_time - BACK_BUFFER_LENGTH when buff_start is before that, to
\* buff_end otherwise (buff_start and buff_end as the scan of the sink's
\* ranges gives them; which ranges they are read from is the subject of
\* C27).
FlushRange ==
    LET back_buffer_start == current_time - BACK_BUFFER_LENGTH IN
    <<StatusStart,
      IF StatusStart < back_buffer_start THEN back_buffer_start
      ELSE BuffEnd(video_buffered)>>

\* C26: a step in which flush_buffer ran (in Flush, or in Status by rule
\* (1)) asked for the range above, the audio sink first and the video sink
\* only when the audio sink accepted; state is Load exactly when both
\* removes succeeded, and is left as flush_buffer found it when one failed,
\* the video sink then keeping its ranges.
C26_FlushRange ==
    [][ flushed'.by # "none"
        => /\ flushed'.by \in {"Flush", "Status"}
           /\ flushed'.by = "Flush" => state = "Flush"
           /\ flushed'.audio \in {<<>>, FlushRange}
           /\ flushed'.range \in {<<>>, FlushRange}
           /\ flushed'.range # <<>> => flushed'.audio # <<>>
           /\ IF flushed'.range # <<>>
              THEN /\ state' = "Load"
                   /\ video_buffered'
                        = SinkRemove(video_buffered, FlushRange[1], FlushRange[2])
              ELSE /\ state' = flushed'.by
                   /\ UNCHANGED video_buffered ]_vars

\* A back-buffer flush of a seek was accepted by the audio sink and refused
\* by the video sink: the machine is still in Flush.
C26_Witness ==
    /\ flushed.by = "Flush"
    /\ state = "Flush"
    /\ flushed.audio # <<>>
    /\ flushed.range = <<>>
    /\ flushed.audio[2] = current_time - BACK_BUFFER_LENGTH


\* Start of the first buffered range of the video sink, 0 when it is empty.
FirstStart == IF video_buffered = <<>> THEN 0 ELSE video_buffered[1].start

\* C27: buff_start is the start of the FIRST buffered range, for any number
\* of ranges: a tick that runs Status flushes exactly when current_time is more
\* than BACK_BUFFER_LENGTH past the start of the first range, and the range
\* a flush removes starts at the start of the first range and, when it is a
\* full flush, ends at the end of the last.
C27_FirstAndLastRange ==
    [][ /\ ( /\ state \in {"Status", "AdaptativeBitrate"}
             /\ media_buffers.is_some
             /\ HasTrack(media_buffers.tracks, level)
             /\ SinkTick )
           => (flushed'.by = "Status"
                 <=> current_time > FirstStart + BACK_BUFFER_LENGTH)
        /\ flushed'.audio # <<>>
           => /\ flushed'.audio[1] = FirstStart
              /\ flushed'.audio[2] \in {current_time - BACK_BUFFER_LENGTH,
                                        BuffEnd(video_buffered)} ]_vars


(***************************************************************************)
(* The live segment locator.                                               *)
(***************************************************************************)
\* C28: a tick of the live engine that reaches load_live_segment (from
\* Load, or from AdaptativeBitrate or Status when nothing is switched or
\* flushed) while `level` indexes a track: with a non-empty buffer it removes exactly the head (cid,
\* node), sets LiveStream.previous to cid and starts the append fetch of
\* that node's audio and of its video at the track of `level`; with an empty
\* buffer it starts no fetch and leaves previous, buffer and
\* unordered_buffer as they were.
C28_LivePop ==
    [][ ( /\ is_live /\ media_buffers.is_some /\ Ticked
          /\ HasTrack(media_buffers.tracks, level)
          /\ state \in {"Load", "AdaptativeBitrate", "Status"}
          /\ state' # "Switch"
          /\ flushed' = NoFlush /\ last_call' = NoCall )
        => IF buffer # <<>>
           THEN /\ buffer' = Tail(buffer)
                /\ previous' = Head(buffer).cid
                /\ yielded' = Append(yielded, Head(buffer).cid)
                /\ append_fetches' = append_fetches (+) SetToBag({
                      [kind |-> "media", audio |-> TRUE, level |-> level,
                       segment |-> Head(buffer).cid]})
                /\ UNCHANGED <<unordered_buffer, node_fetches, setup_fetches>>
           ELSE UNCHANGED <<liveVars, fetchVars, yielded>> ]_vars

\* A head has been popped from a buffer of two entries or more.
C28_Witness ==
    /\ is_live
    /\ yielded # <<>>
    /\ previous = yielded[Len(yielded)]
    /\ buffer # <<>>
    /\ \E f \in BagToSet(append_fetches) : f.segment = previous


\* C29: whenever the machine rests in Load or Switch, exactly one segment
\* or init-segment fetch of the controller is outstanding (the node and
\* setup fetches of the reorder buffer are not counted).
C29_OneFetchInLoadSwitch ==
    state \in {"Load", "Switch"} => BagCardinality(append_fetches) = 1


(***************************************************************************)
(* The setup resolver on every short descriptor: after source open, the    *)
(* setup fetch returns a descriptor of supported and unsupported audio and *)
(* video tracks in any order, and the media source creates every sink or   *)
(* refuses the first or the second one.                                    *)
(***************************************************************************)
MaxSetupTracks == 3

SetupTracks ==
    { Audio, Track("audio", "unsupported", 1), Track("v1", "avc", 2),
      Track("v1", "unsupported", 2), Track("v2", "avc", 4) }

SetupDescriptors == SeqsUpTo(SetupTracks, MaxSetupTracks) \ {<<>>}

SetupAny == OnSetupNodeWith(SetupDescriptors, SetupEnvs)

NextSetup == OnSourceOpen \/ SetupAny \/ LiveAppend

SpecSetup == InitVod /\ [][NextSetup]_vars

\* The first supported track of the descriptor that is an audio track
\* (audio = TRUE) or a video track (audio = FALSE), 0 if there is none.
FirstSupported(tracks, audio) ==
    LET wanted == { i \in 1..Len(tracks) :
                      /\ IsTypeSupported(tracks[i].codec)
                      /\ (tracks[i].name = "audio") = audio }
    IN IF wanted = {} THEN 0
       ELSE CHOOSE i \in wanted : \A j \in wanted : i <= j

\* C30: when the setup resolver runs on a descriptor, a sink is created
\* only for a track with a supported codec, at most one audio sink, for the
\* first supported track named "audio", and at most one video sink, for the
\* first supported video track; and when either sink was not created the
\* resolver fails: no MediaBuffers is installed, the state does not become
\* Load and no init append is requested.
C30_SetupSinks ==
    [][ last_call'.op = "add_source_buffer" =>
          LET tracks == last_call'.input
              sinks  == last_call'.output
          IN /\ sinks.audio \in {0, FirstSupported(tracks, TRUE)}
             /\ sinks.video \in {0, FirstSupported(tracks, FALSE)}
             /\ sinks.calls = (IF sinks.audio # 0 THEN 1 ELSE 0)
                              + (IF sinks.video # 0 THEN 1 ELSE 0)
             /\ (sinks.audio = 0 \/ sinks.video = 0) =>
                   /\ ~media_buffers'.is_some
                   /\ state' = state /\ state' # "Load"
                   /\ UNCHANGED append_fetches ]_vars

\* The resolver skipped an unsupported track and an audio or video track
\* after the first, or created the audio sink and was refused the video one.
C30_Witness ==
    /\ last_call.op = "add_source_buffer"
    /\ LET tracks == last_call.input
           sinks  == last_call.output
       IN \/ /\ media_buffers.is_some /\ state = "Load"
             /\ \E i \in 1..Len(tracks) : ~IsTypeSupported(tracks[i].codec)
             /\ \E i \in 1..Len(tracks) :
                   /\ IsTypeSupported(tracks[i].codec)
                   /\ i \notin {sinks.audio, sinks.video}
          \/ /\ sinks.failed /\ sinks.audio # 0 /\ sinks.video = 0
             /\ ~media_buffers.is_some


(***************************************************************************)
(* The whole lifetime.                                                     *)
(***************************************************************************)
\* C31: over an engine lifetime the setup descriptor is applied at most
\* once: once MediaBuffers exists, no later step creates sinks on the media
\* source, installs MediaBuffers again or requests the append of the pair
\* of init segments again, even when several origin announcements were
\* processed before the first setup fetch completed.
C31_SetupOnce ==
    [][ media_buffers.is_some =>
          /\ last_call'.op # "add_source_buffer"
          /\ CopiesIn(SetupFetch, append_fetches')
               <= CopiesIn(SetupFetch, append_fetches) ]_vars


\* The media segment a step has just appended to the sinks is f.
Appended(f) ==
    /\ f \in BagToSet(append_fetches)
    /\ f.kind = "media"
    /\ append_fetches' = append_fetches (-) SetToBag({f})
    /\ update_end' = update_end + 1

\* C32: every media segment appended to the video sink was fetched for the
\* track tracks[L] of the level L whose init segment is the one the sink
\* was given last and whose codec is the sink's current codec: the order
\* change_type(tracks[L].codec), init segment of L, media segments of L is
\* not broken by a level change, a seek or the initial setup.
C32_MediaMatchesSink ==
    [][ \A f \in BagToSet(append_fetches) :
          Appended(f) =>
             /\ HasTrack(media_buffers.tracks, f.level)
             /\ media_buffers.video.init = f.level
             /\ media_buffers.video.codec
                  = TrackAt(media_buffers.tracks, f.level).codec ]_vars

====
